---- MODULE Spec2Model ----
(***************************************************************************)
(* Model of the label deduplication pipeline of src/deduplicator.py:       *)
(* parse_groups_text, groups_summary_for_prompt, assign_one_label,         *)
(* process_file and main.                                                  *)
(*                                                                         *)
(* A Python str is modelled as a sequence of one-character strings, so     *)
(* that strip, split, splitlines, lower, startswith and the two regular    *)
(* expressions are computed, character by character, as the code does.     *)
(* The delimiter markers of the prompts are single elements of such a      *)
(* sequence.                                                               *)
(***************************************************************************)
EXTENDS Integers, Sequences, FiniteSets, TLC

(***************************************************************************)
(* Python str primitives                                                   *)
(***************************************************************************)
LF == "\n"

IsSpace(c) == c \in {" ", "\t", LF}

Digits == <<"0", "1", "2", "3", "4", "5", "6", "7", "8", "9">>

IsDigit(c) == \E i \in 1..10 : Digits[i] = c

DigitVal(c) == (CHOOSE i \in 1..10 : Digits[i] = c) - 1

UpperChars == <<"A", "B", "C", "D", "E", "F", "G", "H", "I", "J", "K", "L", "M", "N", "O", "P", "Q", "R", "S", "T", "U", "V", "W", "X", "Y", "Z">>

LowerChars == <<"a", "b", "c", "d", "e", "f", "g", "h", "i", "j", "k", "l", "m", "n", "o", "p", "q", "r", "s", "t", "u", "v", "w", "x", "y", "z">>

LowerChar(c) ==
    IF \E i \in 1..Len(UpperChars) : UpperChars[i] = c
    THEN LowerChars[CHOOSE i \in 1..Len(UpperChars) : UpperChars[i] = c]
    ELSE c

\* str.lower()
Lower(s) == [i \in 1..Len(s) |-> LowerChar(s[i])]

\* s[i:] with a 1-based first index
From(s, i) == SubSeq(s, i, Len(s))

\* str.startswith(prefix)
StartsWith(s, prefix) ==
    /\ Len(s) >= Len(prefix)
    /\ SubSeq(s, 1, Len(prefix)) = prefix

\* str.find(c) for a one-element needle, 1-based, 0 when absent
Find(s, c) ==
    IF \E i \in 1..Len(s) : s[i] = c
    THEN CHOOSE i \in 1..Len(s) : s[i] = c /\ \A j \in 1..(i - 1) : s[j] # c
    ELSE 0

\* str.strip()
Strip(s) ==
    IF \A i \in 1..Len(s) : IsSpace(s[i])
    THEN << >>
    ELSE LET a == CHOOSE i \in 1..Len(s) :
                      ~IsSpace(s[i]) /\ \A j \in 1..(i - 1) : IsSpace(s[j])
             b == CHOOSE i \in 1..Len(s) :
                      ~IsSpace(s[i]) /\ \A j \in (i + 1)..Len(s) : IsSpace(s[j])
         IN  SubSeq(s, a, b)

RECURSIVE Split(_, _)
\* str.split(sep) for a one-character separator: always at least one piece
Split(s, sep) ==
    LET i == Find(s, sep)
    IN  IF i = 0 THEN <<s>>
        ELSE <<SubSeq(s, 1, i - 1)>> \o Split(From(s, i + 1), sep)

RECURSIVE SplitLines(_)
\* str.splitlines(): no piece for the text after a final line break
SplitLines(s) ==
    IF s = << >> THEN << >>
    ELSE LET i == Find(s, LF)
         IN  IF i = 0 THEN <<s>>
             ELSE <<SubSeq(s, 1, i - 1)>> \o SplitLines(From(s, i + 1))

RECURSIVE ToInt(_)
\* int() of a run of decimal digits
ToInt(ds) ==
    IF ds = << >> THEN 0
    ELSE 10 * ToInt(SubSeq(ds, 1, Len(ds) - 1)) + DigitVal(ds[Len(ds)])

\* The end of the maximal run of characters satisfying P that starts at i
\* (i - 1 when s[i] does not satisfy it).
DigitRunEnd(s, i) ==
    CHOOSE e \in (i - 1)..Len(s) :
        /\ \A j \in i..e : IsDigit(s[j])
        /\ (e < Len(s) => ~IsDigit(s[e + 1]))

SpaceRunEnd(s, i) ==
    CHOOSE e \in (i - 1)..Len(s) :
        /\ \A j \in i..e : IsSpace(s[j])
        /\ (e < Len(s) => ~IsSpace(s[e + 1]))

\* str(n) for n >= 0
RECURSIVE ToStr(_)
ToStr(n) ==
    IF n < 10 THEN <<Digits[n + 1]>>
    ELSE ToStr(n \div 10) \o <<Digits[(n % 10) + 1]>>

RECURSIVE Join(_, _)
\* sep.join(parts)
Join(parts, sep) ==
    IF parts = << >> THEN << >>
    ELSE IF Len(parts) = 1 THEN parts[1]
    ELSE parts[1] \o sep \o Join(Tail(parts), sep)

(***************************************************************************)
(* parse_groups_text                                                       *)
(***************************************************************************)
GroupWord == <<"G", "r", "o", "u", "p">>

NoMatch == [ok |-> FALSE, num |-> << >>, name |-> << >>, labels |-> << >>]

\* group(3) of the pattern on the text after the colon: \s*(.+?)\s*$ .
\* Greedy \s*, lazy .+? : the text stripped, or its last character when the
\* text is all whitespace.
PatTail(rest) ==
    IF Strip(rest) # << >> THEN Strip(rest) ELSE <<rest[Len(rest)]>>

\* pat.match(line) for pat = ^Group\s+(\d+)\s+(.+?):\s*(.+?)\s*$ .
\* \s+ and \d+ are greedy, (.+?) is lazy, and the regex engine backtracks:
\* the second \s+ gives whitespace back (longest first) until a name of at
\* least one character is followed by a colon with text after it.
PatMatch(line) ==
    IF ~StartsWith(line, GroupWord) THEN NoMatch
    ELSE
    LET w1 == SpaceRunEnd(line, 6)
        d2 == DigitRunEnd(line, w1 + 1)
        w2 == SpaceRunEnd(line, d2 + 1)
        \* a colon that can end a name starting at s
        Colon(s, q) == q >= s + 1 /\ q < Len(line) /\ line[q] = ":"
        Starts == {s \in (d2 + 2)..(w2 + 1) : \E q \in 1..Len(line) : Colon(s, q)}
    IN  IF w1 < 6 \/ d2 < w1 + 1 \/ w2 < d2 + 1 \/ Starts = {} THEN NoMatch
        ELSE
        LET s == CHOOSE x \in Starts : \A y \in Starts : y <= x
            q == CHOOSE x \in 1..Len(line) :
                     Colon(s, x) /\ \A y \in 1..(x - 1) : ~Colon(s, y)
        IN  [ok |-> TRUE,
             num |-> SubSeq(line, w1 + 1, d2),
             name |-> SubSeq(line, s, q - 1),
             labels |-> PatTail(From(line, q + 1))]

\* The fragments are trimmed and all of them are kept.
LabelListKeepEmpty(text) ==
    LET parts == Split(text, ",")
    IN  [i \in 1..Len(parts) |-> Strip(parts[i])]

\* [lab.strip() for lab in text.split(",") if lab.strip()]
LabelList(text) ==
    LET parts == Split(text, ",")
    IN  SelectSeq([i \in 1..Len(parts) |-> Strip(parts[i])], LAMBDA l : l # << >>)

RECURSIVE ParseLines(_)
\* The loop over splitlines(): one record per matching non-blank line.
ParseLines(lines) ==
    IF lines = << >> THEN << >>
    ELSE LET line == Strip(lines[1])
             m == PatMatch(line)
         IN  IF line = << >> \/ ~m.ok THEN ParseLines(Tail(lines))
             ELSE <<[group |-> ToInt(m.num),
                     name |-> Strip(m.name),
                     labels |-> LabelList(m.labels)]>> \o ParseLines(Tail(lines))

RECURSIVE SortedTiesReversed(_)
\* A sort that puts a line before the earlier lines that claim the same id.
SortedTiesReversed(gs) ==
    IF gs = << >> THEN << >>
    ELSE LET first == SortedTiesReversed(SubSeq(gs, 1, Len(gs) - 1))
             g == gs[Len(gs)]
             k == Cardinality({i \in 1..Len(first) : first[i].group < g.group})
         IN  SubSeq(first, 1, k) \o <<g>> \o SubSeq(first, k + 1, Len(first))

RECURSIVE SortedByGroup(_)
\* sorted(groups, key=lambda x: x["group"]): stable
SortedByGroup(gs) ==
    IF gs = << >> THEN << >>
    ELSE LET first == SortedByGroup(SubSeq(gs, 1, Len(gs) - 1))
             g == gs[Len(gs)]
             k == Cardinality({i \in 1..Len(first) : first[i].group <= g.group})
         IN  SubSeq(first, 1, k) \o <<g>> \o SubSeq(first, k + 1, Len(first))

\* for i, g in enumerate(groups, start=1): g["group"] = i
Renumber(gs) == [i \in 1..Len(gs) |-> [gs[i] EXCEPT !.group = i]]

parse_groups_text(groups_text) ==
    Renumber(SortedByGroup(ParseLines(SplitLines(groups_text))))

(***************************************************************************)
(* groups_summary_for_prompt                                               *)
(***************************************************************************)
max_examples_per_group == 6

NoneYet == <<"(", "n", "o", "n", "e", " ", "y", "e", "t", ")">>

\* The examples are joined with "; ".
SummaryLineSemicolon(g) ==
    LET ex == SubSeq(g.labels, 1,
                     IF Len(g.labels) < max_examples_per_group
                     THEN Len(g.labels) ELSE max_examples_per_group)
        example_str == IF ex # << >> THEN Join(ex, <<";", " ">>) ELSE NoneYet
    IN  GroupWord \o <<" ">> \o ToStr(g.group) \o <<" ">> \o g.name
            \o <<":", " ">> \o example_str

\* f"Group {g['group']} {g['name']}: {example_str}"
SummaryLine(g) ==
    LET ex == SubSeq(g.labels, 1,
                     IF Len(g.labels) < max_examples_per_group
                     THEN Len(g.labels) ELSE max_examples_per_group)
        example_str == IF ex # << >> THEN Join(ex, <<",", " ">>) ELSE NoneYet
    IN  GroupWord \o <<" ">> \o ToStr(g.group) \o <<" ">> \o g.name
            \o <<":", " ">> \o example_str

groups_summary_for_prompt(groups) ==
    Join([i \in 1..Len(groups) |-> SummaryLine(groups[i])], <<LF>>)

(***************************************************************************)
(* chat_call and the extraction of the payload between the markers         *)
(***************************************************************************)
GROUPS_BEGIN == "<<GROUPS-BEGIN>>"
GROUPS_END == "<<GROUPS-END>>"
ASSIGN_BEGIN == "<<ASSIGN-BEGIN>>"
ASSIGN_END == "<<ASSIGN-END>>"

\* return (resp.choices[0].message.content or "").strip()
chat_call(content) == Strip(content)

\* content[start + len(begin):end].strip() if (start != -1 and end != -1
\* and end > start) else content.strip()
Extracted(content, begin, end) ==
    LET s == Find(content, begin)
        e == Find(content, end)
    IN  IF s # 0 /\ e # 0 /\ e > s
        THEN Strip(SubSeq(content, s + 1, e - 1))
        ELSE Strip(content)

\* The text seed_groups_async returns for a response of the model.
seed_groups_async(response) ==
    Extracted(chat_call(response), GROUPS_BEGIN, GROUPS_END)

\* The decision assign_one_label returns for a response of the model:
\* extracted.splitlines()[0].strip() if extracted else ""
DecisionOf(response) ==
    LET extracted == Extracted(chat_call(response), ASSIGN_BEGIN, ASSIGN_END)
    IN  IF extracted # << >> THEN Strip(SplitLines(extracted)[1]) ELSE << >>

(***************************************************************************)
(* The merge loop of process_file                                          *)
(***************************************************************************)
LowGroup == <<"g", "r", "o", "u", "p">>
LowNew == <<"n", "e", "w", ":">>

HasDigit(s) == \E i \in 1..Len(s) : IsDigit(s[i])

\* int(re.search(r"\d+", decision).group(0)): the first run of digits
FirstInt(s) ==
    LET a == CHOOSE i \in 1..Len(s) :
                 IsDigit(s[i]) /\ \A j \in 1..(i - 1) : ~IsDigit(s[j])
    IN  ToInt(SubSeq(s, a, DigitRunEnd(s, a)))

\* The decision names an existing group: lines 187-191
IsGroupDecision(groups, decision) ==
    /\ StartsWith(Lower(decision), LowGroup)
    /\ HasDigit(decision)
    /\ 1 <= FirstInt(decision)
    /\ FirstInt(decision) <= Len(groups)

\* The name taken from the decision as it is, not stripped.
NewGroupNameNoStrip(lab, decision) ==
    IF StartsWith(Lower(decision), LowNew)
    THEN LET rest == From(decision, Find(decision, ":") + 1)
         IN  IF rest # << >> THEN rest ELSE lab
    ELSE lab

\* gname of lines 194-197
NewGroupName(lab, decision) ==
    IF StartsWith(Lower(decision), LowNew)
    THEN LET rest == Strip(From(decision, Find(decision, ":") + 1))
         IN  IF rest # << >> THEN rest ELSE lab
    ELSE lab

\* The id of the last group, not the next one.
NewIdxStale(groups) == Len(groups)

\* new_idx of line 198
NewIdx(groups) == Len(groups) + 1

\* A merge that skips the label of a decision it cannot parse.
MergeOneDropUnparsed(groups, lab, decision) ==
    IF IsGroupDecision(groups, decision)
    THEN [groups EXCEPT ![FirstInt(decision)].labels = Append(@, lab)]
    ELSE IF StartsWith(Lower(decision), LowNew)
    THEN Append(groups, [group |-> NewIdx(groups),
                         name |-> NewGroupName(lab, decision),
                         labels |-> <<lab>>])
    ELSE groups

\* The label is put at the head of the list of the group.
MergeOneLabelFirst(groups, lab, decision) ==
    IF IsGroupDecision(groups, decision)
    THEN LET num == FirstInt(decision)
         IN  [groups EXCEPT ![num].labels = <<lab>> \o @]
    ELSE Append(groups, [group |-> NewIdx(groups),
                         name |-> NewGroupName(lab, decision),
                         labels |-> <<lab>>])

\* groups[num] in place of groups[num-1]: the label goes to the group after
\* the one the decision names.
MergeOneNextGroup(groups, lab, decision) ==
    IF IsGroupDecision(groups, decision)
    THEN LET num == FirstInt(decision)
         IN  IF num < Len(groups)
             THEN [groups EXCEPT ![num + 1].labels = Append(@, lab)]
             ELSE groups
    ELSE Append(groups, [group |-> NewIdx(groups),
                         name |-> NewGroupName(lab, decision),
                         labels |-> <<lab>>])

\* One iteration of "for lab, decision in results": lines 187-199
MergeOne(groups, lab, decision) ==
    IF IsGroupDecision(groups, decision)
    THEN LET num == FirstInt(decision)
         IN  [groups EXCEPT ![num].labels = Append(@, lab)]
    ELSE Append(groups, [group |-> NewIdx(groups),
                         name |-> NewGroupName(lab, decision),
                         labels |-> <<lab>>])

(***************************************************************************)
(* pick_and_pop_row and the materialization loop                           *)
(***************************************************************************)
\* The picked row stays in the pool.
pick_and_pop_rowKeep(df, cells, label) ==
    LET exact == SelectSeq(df, LAMBDA i : cells[i] = label)
        lenient == SelectSeq(df, LAMBDA i :
                       Lower(Strip(cells[i])) = Lower(Strip(label)))
        matches == IF exact # << >> THEN exact ELSE lenient
    IN  IF matches = << >> THEN [row |-> 0, df |-> df]
        ELSE [row |-> matches[1], df |-> df]

\* Every row that matches leaves the pool with the picked one.
pick_and_pop_rowDropAll(df, cells, label) ==
    LET exact == SelectSeq(df, LAMBDA i : cells[i] = label)
        lenient == SelectSeq(df, LAMBDA i :
                       Lower(Strip(cells[i])) = Lower(Strip(label)))
        matches == IF exact # << >> THEN exact ELSE lenient
    IN  IF matches = << >> THEN [row |-> 0, df |-> df]
        ELSE [row |-> matches[1],
              df |-> SelectSeq(df, LAMBDA i :
                         \A k \in 1..Len(matches) : i # matches[k])]

\* df is the working pool: the indices of the rows of the table that are
\* still in it, in table order. cells[i] is the Category cell of row i.
\* Returns the index of the picked row (0 for None) and the new pool.
pick_and_pop_row(df, cells, label) ==
    LET exact == SelectSeq(df, LAMBDA i : cells[i] = label)
        lenient == SelectSeq(df, LAMBDA i :
                       Lower(Strip(cells[i])) = Lower(Strip(label)))
        matches == IF exact # << >> THEN exact ELSE lenient
    IN  IF matches = << >> THEN [row |-> 0, df |-> df]
        ELSE [row |-> matches[1],
              df |-> SelectSeq(df, LAMBDA i : i # matches[1])]

\* The (group, label) slots of the taxonomy in group order, then label order.
RECURSIVE Slots(_)
Slots(groups) ==
    IF groups = << >> THEN << >>
    ELSE LET g == groups[1]
         IN  [k \in 1..Len(g.labels) |->
                 [lab |-> g.labels[k], gnum |-> g.group, gname |-> g.name]]
             \o Slots(Tail(groups))

\* The row is stamped with its label in place of the name of the group.
StampedRowLabelAsName(r, slot, cells) ==
    [row |-> r.row,
     Category |-> IF r.row = 0 THEN slot.lab ELSE cells[r.row],
     Group |-> slot.gnum,
     GroupName |-> slot.lab]

\* Lines 207-212: row_out for a slot and what pick_and_pop_row returned for
\* it. Field row is the index of the picked row and stands for its other
\* cells; row 0 is the synthesized row, whose other cells are empty.
StampedRow(r, slot, cells) ==
    [row |-> r.row,
     Category |-> IF r.row = 0 THEN slot.lab ELSE cells[r.row],
     Group |-> slot.gnum,
     GroupName |-> slot.gname]

\* Lines 201-213: picked_rows for the slots, starting from working pool df.
RECURSIVE PickRows(_, _, _)
PickRows(slots, df, cells) ==
    IF slots = << >> THEN << >>
    ELSE LET r == pick_and_pop_row(df, cells, slots[1].lab)
         IN  <<StampedRow(r, slots[1], cells)>>
             \o PickRows(Tail(slots), r.df, cells)

(***************************************************************************)
(* Inputs: the tables of INPUT_FILES and the responses of the model        *)
(***************************************************************************)
\* Scaled from the values of the source (SEED_SIZE = 200, seven INPUT_FILES).
SEED_SIZE == 2
NumFiles == 2

\* MAX_CONCURRENT is read from the environment when the module is loaded
\* (line 17): the values the runs are started with.
MaxConcurrentValues == {1, 2}

La == <<"a">>
Lb == <<"b">>
LA == <<"A">>

\* Line 15
CATEGORY_COL == "Category"

\* The Category columns of the tables: none, one or two labels (no label
\* remains after the seed window), and one or two remaining labels, with
\* and without repeated labels; one table holds a label in two cases.
Columns ==
    { << >>,
      <<La>>,
      <<La, Lb>>,
      <<La, La>>,
      <<LA, La>>,
      <<La, Lb, La>>,
      <<La, La, Lb>>,
      <<La, Lb, Lb, La>>,
      <<La, La, Lb, Lb>> }

\* The header of the tables factor_categorization.py writes (Category is
\* its second column), and a header without the column.
Header == <<"factor", "Category", "direction">>
HeaderNoCategory == <<"factor", "direction">>

NoTable == [columns |-> HeaderNoCategory, Category |-> << >>]

\* c in columns
HasColumn(columns, c) == \E k \in 1..Len(columns) : columns[k] = c

\* A table is its header and its Category column, or has no such column.
\* Row i of a table stands for all its other cells.
Tables ==
    {[columns |-> Header, Category |-> c] : c \in Columns}
    \cup {NoTable}

\* Responses of the model to the seed request: one group between the
\* markers that leaves label b out; two groups with gapped ids in
\* descending order; two groups that claim the same id and share label a;
\* one group whose line has label a twice; no group line at all.
SeedResponses ==
    { <<GROUPS_BEGIN, LF>> \o GroupWord \o <<" ", "1", " ", "X", ":", " ", "a", LF, GROUPS_END>>,
      GroupWord \o <<" ", "3", " ", "Y", ":", " ", "b", LF>> \o GroupWord \o <<" ", "1", " ", "X", ":", " ", "a">>,
      GroupWord \o <<" ", "2", " ", "X", ":", " ", "a", LF>> \o GroupWord \o <<" ", "2", " ", "Y", ":", "a", ",", "b">>,
      GroupWord \o <<" ", "1", " ", "X", ":", " ", "a", ",", " ", "a">>,
      <<"s", "o", "r", "r", "y">> }

\* Responses of the model to an assignment request.
AssignResponses ==
    { <<ASSIGN_BEGIN, LF>> \o GroupWord \o <<" ", "1", LF, ASSIGN_END>>,
      <<"g", "r", "o", "u", "p", " ", "2">>,
      GroupWord \o <<" ", "9", "9">>,
      GroupWord,
      <<"N", "E", "W", ":", " ", "Z">>,
      <<"n", "e", "w", ":">>,
      <<"?">>,
      << >> }

(***************************************************************************)
(* State                                                                   *)
(***************************************************************************)
VARIABLES
    MAX_CONCURRENT,  \* the module global of line 17
    fileNo,          \* main: the index into INPUT_FILES of the current path
    pc,              \* where main / process_file is
    df_all,          \* process_file: the table read from input_csv
    seed_text,       \* process_file: what seed_groups_async returned
    groups,          \* process_file: the taxonomy
    frozen_summary,  \* process_file: the summary every assignment prompt gets
    sem,             \* sem[f]: the value of the semaphore of file f
    taskState,       \* taskState[f][i]: the i-th assign_one_label task of file f
    returned,        \* returned[i]: what task i of the current file returned
    doneOrder,       \* the tasks of the current file in the order they returned
    results,         \* process_file: what gather returned
    mergeIdx,        \* process_file: the position of the merge loop in results
    out_df,          \* process_file: the rows of the output table
    written,         \* the files whose output_csv has been written
    errors,          \* the files for which main printed "Error processing"
    working_df,      \* process_file: the rows of df_work and, from line 202,
                     \* of working_df (indices into the table, in order)
    picked_rows,     \* process_file: the rows picked so far
    out_columns,     \* process_file: the columns of the output table
    prompts,         \* prompts[i]: what task i of the current file was made with
    requested,       \* the files for which a request was sent to the model
    reparsed,        \* the round trip: the summary of groups, parsed again
    script,          \* the splitter that runs: "divide_six" or "divide_eight"
    df_split,        \* splitter: the rows of df, as (outcome, direction)
    assigned_mask,   \* splitter: the indices of the rows some bucket took
    bucketNo,        \* splitter: the iterations of the bucket loop so far
    files            \* splitter: the rows of each file written, by name

\* The state of the splitter scripts.
splitter == <<script, df_split, assigned_mask, bucketNo, files>>

\* What no step of main changes.
aside == <<MAX_CONCURRENT, reparsed, splitter>>

vars == <<MAX_CONCURRENT, fileNo, pc, df_all, seed_text, groups, frozen_summary, sem, taskState,
          returned, doneOrder, results, mergeIdx, out_df, written, errors,
          working_df, picked_rows, out_columns, prompts, requested, reparsed,
          script, df_split, assigned_mask, bucketNo, files>>

locals == <<df_all, seed_text, groups, frozen_summary, returned, doneOrder,
            results, mergeIdx, out_df, working_df, picked_rows, out_columns,
            prompts>>

\* The splitter has not run.
SplitterIdle ==
    /\ script = "none"
    /\ df_split = << >>
    /\ assigned_mask = {}
    /\ bucketNo = 0
    /\ files = << >>

Files == 1..NumFiles

NoResult == <<"pending">>

\* Lines 166-169
all_labels == df_all.Category
seed_labels ==
    SubSeq(all_labels, 1, IF Len(all_labels) < SEED_SIZE THEN Len(all_labels) ELSE SEED_SIZE)
remaining == SubSeq(all_labels, SEED_SIZE + 1, Len(all_labels))

\* The locals of process_file are gone when it returns or raises.
ResetLocals ==
    /\ df_all' = NoTable
    /\ seed_text' = << >>
    /\ groups' = << >>
    /\ frozen_summary' = << >>
    /\ returned' = << >>
    /\ doneOrder' = << >>
    /\ results' = << >>
    /\ mergeIdx' = 0
    /\ out_df' = << >>
    /\ working_df' = << >>
    /\ picked_rows' = << >>
    /\ out_columns' = << >>
    /\ prompts' = << >>

Init ==
    /\ MAX_CONCURRENT \in MaxConcurrentValues
    /\ fileNo = 1
    /\ pc = "start"
    /\ df_all = NoTable
    /\ seed_text = << >>
    /\ groups = << >>
    /\ frozen_summary = << >>
    /\ sem = [f \in Files |-> MAX_CONCURRENT]
    /\ taskState = [f \in Files |-> << >>]
    /\ returned = << >>
    /\ doneOrder = << >>
    /\ results = << >>
    /\ mergeIdx = 0
    /\ out_df = << >>
    /\ written = {}
    /\ errors = {}
    /\ working_df = << >>
    /\ picked_rows = << >>
    /\ out_columns = << >>
    /\ prompts = << >>
    /\ requested = {}
    /\ reparsed = << >>
    /\ SplitterIdle

(***************************************************************************)
(* main and process_file                                                   *)
(***************************************************************************)
\* main, lines 233-234: the exception of process_file is caught and the
\* loop goes on with the next path.
Caught ==
    /\ errors' = errors \cup {fileNo}
    /\ fileNo' = fileNo + 1
    /\ pc' = "start"
    /\ ResetLocals

\* The seed request is sent whatever the columns of the table are.
LoadFileUnchecked(t) ==
    /\ pc = "start"
    /\ fileNo <= NumFiles
    /\ df_all' = t
    /\ working_df' = [i \in 1..Len(t.Category) |-> i]
    /\ requested' = requested \cup {fileNo}
    /\ pc' = "seed"
    /\ UNCHANGED <<fileNo, seed_text, groups, frozen_summary, returned,
                   doneOrder, results, mergeIdx, out_df, errors,
                   picked_rows, out_columns, prompts>>
    /\ UNCHANGED <<sem, taskState, written>>
    /\ UNCHANGED aside

\* Lines 159-172: the table is read; without the Category column
\* process_file raises KeyError, otherwise it sends the seed request.
LoadFile(t) ==
    /\ pc = "start"
    /\ fileNo <= NumFiles
    /\ IF HasColumn(t.columns, CATEGORY_COL)
       THEN /\ df_all' = t
            /\ working_df' = [i \in 1..Len(t.Category) |-> i]
            /\ requested' = requested \cup {fileNo}
            /\ pc' = "seed"
            /\ UNCHANGED <<fileNo, seed_text, groups, frozen_summary, returned,
                           doneOrder, results, mergeIdx, out_df, errors,
                           picked_rows, out_columns, prompts>>
       ELSE Caught /\ UNCHANGED requested
    /\ UNCHANGED <<sem, taskState, written>>
    /\ UNCHANGED aside

\* Lines 172-173: the seed request returns and its text is parsed.
SeedReturn(response) ==
    /\ pc = "seed"
    /\ seed_text' = seed_groups_async(response)
    /\ groups' = parse_groups_text(seed_text')
    /\ pc' = "parsed"
    /\ UNCHANGED <<fileNo, df_all, frozen_summary, sem, taskState, returned,
                   doneOrder, results, mergeIdx, out_df, written, errors>>
    /\ UNCHANGED <<working_df, picked_rows, out_columns, prompts, requested>>
    /\ UNCHANGED aside

\* The seed request raises: nothing in process_file catches it.
SeedRaise ==
    /\ pc = "seed"
    /\ Caught
    /\ UNCHANGED <<sem, taskState, written, requested>>
    /\ UNCHANGED aside

\* A fallback with one group per distinct seed label.
SingletonsDistinct(labs) ==
    LET firsts == SelectSeq([i \in 1..Len(labs) |-> i],
                            LAMBDA i : \A j \in 1..(i - 1) : labs[j] # labs[i])
    IN  [k \in 1..Len(firsts) |->
            [group |-> k, name |-> labs[firsts[k]], labels |-> <<labs[firsts[k]]>>]]

\* for i, lab in enumerate(seed_labels, start=1): lines 176-177
Singletons(labs) ==
    [i \in 1..Len(labs) |-> [group |-> i, name |-> labs[i], labels |-> <<labs[i]>>]]

\* Lines 174-177: no group was parsed
SeedFallback ==
    /\ pc = "parsed"
    /\ groups = << >>
    /\ groups' = Singletons(seed_labels)
    /\ pc' = "seeded"
    /\ UNCHANGED <<fileNo, df_all, seed_text, frozen_summary, sem, taskState,
                   returned, doneOrder, results, mergeIdx, out_df, written, errors>>
    /\ UNCHANGED <<working_df, picked_rows, out_columns, prompts, requested>>
    /\ UNCHANGED aside

\* The states of the tasks once each has run up to its first suspension:
\* "async with sem" lets the first MAX_CONCURRENT through, in order, and
\* queues the others.
Started(n) ==
    [i \in 1..n |-> IF i <= MAX_CONCURRENT THEN "inflight" ELSE "waiting"]

CountOf(ts, st) == Cardinality({i \in 1..Len(ts) : ts[i] = st})

\* Every prompt shows the taxonomy with a group for each earlier label.
TaskArgsRefreshed(summary, labs) ==
    [i \in 1..Len(labs) |->
        [label |-> labs[i],
         groups_summary |->
             groups_summary_for_prompt(
                 groups \o [k \in 1..(i - 1) |->
                               [group |-> Len(groups) + k, name |-> labs[k],
                                labels |-> <<labs[k]>>]])]]

\* Line 182: the arguments each assign_one_label is called with; its prompt
\* is made of them (lines 130-145).
TaskArgs(summary, labs) ==
    [i \in 1..Len(labs) |-> [label |-> labs[i], groups_summary |-> summary]]

\* Lines 180-185: the summary is frozen, the semaphore and the tasks are
\* created, and gather starts every task (no task when nothing remains).
Dispatch ==
    /\ pc = "seeded" \/ (pc = "parsed" /\ groups # << >>)
    /\ frozen_summary' = groups_summary_for_prompt(groups)
    /\ prompts' = TaskArgs(frozen_summary', remaining)
    /\ taskState' = [taskState EXCEPT ![fileNo] = Started(Len(remaining))]
    /\ sem' = [sem EXCEPT ![fileNo] =
                  MAX_CONCURRENT - CountOf(Started(Len(remaining)), "inflight")]
    /\ returned' = [i \in 1..Len(remaining) |-> NoResult]
    /\ pc' = IF remaining = << >> THEN "materialize" ELSE "gather"
    /\ UNCHANGED <<fileNo, df_all, seed_text, groups, doneOrder, results,
                   mergeIdx, out_df, written, errors>>
    /\ UNCHANGED <<working_df, picked_rows, out_columns, requested>>
    /\ UNCHANGED aside

\* The permit of a call that is over is not handed to the first waiter.
ReleasedNoWake(ts, i, st) == [ts EXCEPT ![i] = st]

\* Leaving "async with sem" (line 146): the first waiter, if any, gets the
\* permit; otherwise the value goes up.
Released(ts, i, st) ==
    LET ts1 == [ts EXCEPT ![i] = st]
    IN  IF \E j \in 1..Len(ts) : ts[j] = "waiting"
        THEN [ts1 EXCEPT ![CHOOSE j \in 1..Len(ts) :
                              ts[j] = "waiting" /\ \A k \in 1..(j - 1) : ts[k] # "waiting"]
                          = "inflight"]
        ELSE ts1

SemAfterRelease(ts, v) ==
    IF \E j \in 1..Len(ts) : ts[j] = "waiting" THEN v ELSE v + 1

\* The results in the order the tasks returned.
gatherAsCompleted(ret, order) == [k \in 1..Len(order) |-> ret[order[k]]]

\* asyncio.gather: the results in the order of the awaitables.
gather(ret, order) == ret

AllDone(ts) == \A j \in 1..Len(ts) : ts[j] = "done"

\* Lines 146-153: the request of task i of file f returns. The task of a
\* file whose process_file has already failed still runs; nobody reads
\* what it returns.
TaskReturn(f, i, response) ==
    /\ pc \in {"seed", "gather"}
    /\ f <= fileNo
    /\ i \in 1..Len(taskState[f])
    /\ taskState[f][i] = "inflight"
    /\ taskState' = [taskState EXCEPT ![f] = Released(@, i, "done")]
    /\ sem' = [sem EXCEPT ![f] = SemAfterRelease(taskState[f], @)]
    /\ IF f = fileNo
       THEN /\ returned' = [returned EXCEPT ![i] = <<remaining[i], DecisionOf(response)>>]
            /\ doneOrder' = Append(doneOrder, i)
            /\ IF AllDone(taskState'[f])
               THEN /\ results' = gather(returned', doneOrder')
                    /\ mergeIdx' = 1
                    /\ pc' = "merge"
               ELSE UNCHANGED <<results, mergeIdx, pc>>
       ELSE UNCHANGED <<returned, doneOrder, results, mergeIdx, pc>>
    /\ UNCHANGED <<fileNo, df_all, seed_text, groups, frozen_summary, out_df,
                   written, errors>>
    /\ UNCHANGED <<working_df, picked_rows, out_columns, prompts, requested>>
    /\ UNCHANGED aside

\* The failure cancels the other calls of the file.
TaskRaiseCancelsOthers(f, i) ==
    /\ pc \in {"seed", "gather"}
    /\ f <= fileNo
    /\ i \in 1..Len(taskState[f])
    /\ taskState[f][i] = "inflight"
    /\ taskState' = [taskState EXCEPT ![f] =
                         [j \in 1..Len(taskState[f]) |->
                             IF j = i THEN "failed"
                             ELSE IF taskState[f][j] \in {"inflight", "waiting"}
                                  THEN "cancelled" ELSE taskState[f][j]]]
    /\ sem' = [sem EXCEPT ![f] = MAX_CONCURRENT]
    /\ IF f = fileNo
       THEN Caught
       ELSE UNCHANGED <<fileNo, pc, locals, errors>>
    /\ UNCHANGED <<written, requested>>
    /\ UNCHANGED aside

\* A failure that stays in its task: process_file goes on waiting.
TaskRaiseIsolated(f, i) ==
    /\ pc \in {"seed", "gather"}
    /\ f <= fileNo
    /\ i \in 1..Len(taskState[f])
    /\ taskState[f][i] = "inflight"
    /\ taskState' = [taskState EXCEPT ![f] = Released(@, i, "failed")]
    /\ sem' = [sem EXCEPT ![f] = SemAfterRelease(taskState[f], @)]
    /\ UNCHANGED <<fileNo, pc, locals, errors, written, requested>>
    /\ UNCHANGED aside

\* Lines 146-148 and 185: the request of task i of file f raises. The
\* permit is released; gather (return_exceptions=False) raises in
\* process_file at once and leaves the other tasks running.
TaskRaise(f, i) ==
    /\ pc \in {"seed", "gather"}
    /\ f <= fileNo
    /\ i \in 1..Len(taskState[f])
    /\ taskState[f][i] = "inflight"
    /\ taskState' = [taskState EXCEPT ![f] = Released(@, i, "failed")]
    /\ sem' = [sem EXCEPT ![f] = SemAfterRelease(taskState[f], @)]
    /\ IF f = fileNo
       THEN Caught
       ELSE UNCHANGED <<fileNo, pc, locals, errors>>
    /\ UNCHANGED <<written, requested>>
    /\ UNCHANGED aside

\* One iteration of the loop of lines 186-199.
MergeStep ==
    /\ pc = "merge"
    /\ groups' = MergeOne(groups, results[mergeIdx][1], results[mergeIdx][2])
    /\ mergeIdx' = mergeIdx + 1
    /\ pc' = IF mergeIdx = Len(results) THEN "materialize" ELSE "merge"
    /\ UNCHANGED <<fileNo, df_all, seed_text, frozen_summary, sem, taskState,
                   returned, doneOrder, results, out_df, written, errors>>
    /\ UNCHANGED <<working_df, picked_rows, out_columns, prompts, requested>>
    /\ UNCHANGED aside

\* One iteration of the loops of lines 203-213: the slot after the rows
\* picked so far.
PickStep ==
    /\ pc = "materialize"
    /\ Len(picked_rows) < Len(Slots(groups))
    /\ LET slot == Slots(groups)[Len(picked_rows) + 1]
           r == pick_and_pop_row(working_df, all_labels, slot.lab)
       IN  /\ working_df' = r.df
           /\ picked_rows' = Append(picked_rows, StampedRow(r, slot, all_labels))
    /\ UNCHANGED <<fileNo, pc, df_all, seed_text, groups, frozen_summary, sem,
                   taskState, returned, doneOrder, results, mergeIdx, out_df,
                   written, errors, out_columns, prompts, requested>>
    /\ UNCHANGED aside

\* Line 215: the columns of pd.DataFrame(picked_rows) are the keys of the
\* rows in the order they were set: the columns of df_work, then Group and
\* Group Name unless df_work has them. There is no column without a row.
FrameColumns(columns, rows) ==
    IF rows = << >> THEN << >>
    ELSE columns \o SelectSeq(<<"Group", "Group Name">>,
                              LAMBDA c : ~HasColumn(columns, c))

\* Lines 218-219
new_order(cols) ==
    LET ci == CHOOSE k \in 1..Len(cols) : cols[k] = CATEGORY_COL
    IN  SubSeq(cols, 1, ci) \o <<"Group", "Group Name">>
        \o SelectSeq(cols, LAMBDA c : c \notin {CATEGORY_COL, "Group", "Group Name"})

\* Lines 215-224: the output table is made of the rows, its columns are
\* put in the new order, and it is written.
WriteOutput ==
    /\ pc = "materialize"
    /\ Len(picked_rows) = Len(Slots(groups))
    /\ out_df' = picked_rows
    /\ out_columns' =
           LET cols == FrameColumns(df_all.columns, picked_rows)
           IN  IF HasColumn(cols, CATEGORY_COL) THEN new_order(cols) ELSE cols
    /\ written' = written \cup {fileNo}
    /\ pc' = "written"
    /\ UNCHANGED <<fileNo, df_all, seed_text, groups, frozen_summary, sem,
                   taskState, returned, doneOrder, results, mergeIdx, errors,
                   working_df, picked_rows, prompts, requested>>
    /\ UNCHANGED aside

\* process_file returns, its tasks (all done) go with its locals, and main
\* goes on with the next path.
ProcessFileReturn ==
    /\ pc = "written"
    /\ fileNo' = fileNo + 1
    /\ pc' = "start"
    /\ ResetLocals
    /\ taskState' = [taskState EXCEPT ![fileNo] = << >>]
    /\ UNCHANGED <<sem, written, errors, requested>>
    /\ UNCHANGED aside

\* main returns: asyncio.run (line 237) cancels the tasks that are left.
MainExit ==
    /\ pc = "start"
    /\ fileNo > NumFiles
    /\ taskState' = [f \in Files |->
                        [i \in 1..Len(taskState[f]) |->
                            IF taskState[f][i] \in {"inflight", "waiting"}
                            THEN "cancelled" ELSE taskState[f][i]]]
    /\ sem' = [f \in Files |-> MAX_CONCURRENT]
    /\ pc' = "exit"
    /\ UNCHANGED <<fileNo, locals, written, errors, requested>>
    /\ UNCHANGED aside

Next ==
    \/ \E t \in Tables : LoadFile(t)
    \/ \E r \in SeedResponses : SeedReturn(r)
    \/ SeedRaise
    \/ SeedFallback
    \/ Dispatch
    \/ \E f \in Files : \E i \in 1..Len(taskState[f]), r \in AssignResponses :
           TaskReturn(f, i, r)
    \/ \E f \in Files : \E i \in 1..Len(taskState[f]) : TaskRaise(f, i)
    \/ MergeStep
    \/ PickStep
    \/ WriteOutput
    \/ ProcessFileReturn
    \/ MainExit

Spec == Init /\ [][Next]_vars

(***************************************************************************)
(* The runs in which every assignment call that was issued returns: no     *)
(* call raises, and a call in flight does return (lines 146-153; the event *)
(* loop resumes a task when its awaited request is done).                  *)
(***************************************************************************)
\* The positions a task of a file can have.
TaskIds == UNION {1..(Len(c) - SEED_SIZE) : c \in Columns}

NextReturning ==
    \/ \E t \in Tables : LoadFile(t)
    \/ \E r \in SeedResponses : SeedReturn(r)
    \/ SeedRaise
    \/ SeedFallback
    \/ Dispatch
    \/ \E f \in Files : \E i \in 1..Len(taskState[f]), r \in AssignResponses :
           TaskReturn(f, i, r)
    \/ MergeStep
    \/ PickStep
    \/ WriteOutput
    \/ ProcessFileReturn
    \/ MainExit

CallsReturn ==
    \A f \in Files : \A i \in TaskIds :
        WF_vars(\E r \in AssignResponses : TaskReturn(f, i, r))

SpecReturning == Init /\ [][NextReturning]_vars /\ CallsReturn

(***************************************************************************)
(* parse_groups_text on its own: the texts are up to MaxParseLines lines   *)
(* drawn from ParseLinePool; seed_text holds the text and groups the        *)
(* result.                                                                 *)
(***************************************************************************)
MaxParseLines == 3

MoodLine ==
    GroupWord \o <<" ", "3", " ", "M", "o", "o", "d", ":", " ", "h", "a", "p", "p", "y", ",", " ", "j", "o", "y", "f", "u", "l">>
WeatherLine ==
    GroupWord \o <<" ", "1", " ", "W", "e", "a", "t", "h", "e", "r", ":", " ", "s", "u", "n", "n", "y">>

ParseLinePool ==
    { MoodLine,
      WeatherLine,
      GroupWord \o <<" ", "1", "0", " ", "Z", ":", " ", "c">>,
      GroupWord \o <<" ", "2", " ", "Y", ":", "a", ",", ",", "b", " ", ",">>,
      <<" ">> \o GroupWord \o <<" ", " ", "2", " ", "X", " ", ":", " ", "a", " ">>,
      GroupWord \o <<" ", "7", ":", " ", "a">>,
      <<"s", "o", "r", "r", "y">>,
      << >> }

ParseTexts ==
    {Join(ls, <<LF>>) : ls \in UNION {[1..n -> ParseLinePool] : n \in 0..MaxParseLines}}

ParseInit ==
    /\ MAX_CONCURRENT \in MaxConcurrentValues
    /\ fileNo = 1
    /\ pc = "parse_in"
    /\ df_all = NoTable
    /\ seed_text \in ParseTexts
    /\ groups = << >>
    /\ frozen_summary = << >>
    /\ sem = [f \in Files |-> MAX_CONCURRENT]
    /\ taskState = [f \in Files |-> << >>]
    /\ returned = << >>
    /\ doneOrder = << >>
    /\ results = << >>
    /\ mergeIdx = 0
    /\ out_df = << >>
    /\ written = {}
    /\ errors = {}
    /\ working_df = << >>
    /\ picked_rows = << >>
    /\ out_columns = << >>
    /\ prompts = << >>
    /\ requested = {}
    /\ reparsed = << >>
    /\ SplitterIdle

ParseCall ==
    /\ pc = "parse_in"
    /\ groups' = parse_groups_text(seed_text)
    /\ pc' = "parse_out"
    /\ UNCHANGED <<fileNo, df_all, seed_text, frozen_summary, sem,
                   taskState, returned, doneOrder, results, mergeIdx, out_df,
                   written, errors>>
    /\ UNCHANGED <<working_df, picked_rows, out_columns, prompts, requested>>
    /\ UNCHANGED aside

SpecParse == ParseInit /\ [][ParseCall]_vars

(***************************************************************************)
(* The round trip: the summary of a taxonomy, parsed again. The taxonomies *)
(* have up to MaxRoundGroups groups with names and label lists the          *)
(* pipeline can hold: a name can have a colon ("NEW: a:b") or blanks        *)
(* around it (a fallback name is a cell of the table), a label can have a   *)
(* comma (a cell), a list can be empty (seed line "Group 1 X: ,") or long.  *)
(***************************************************************************)
MaxRoundGroups == 2

RoundNames == {<<"X">>, <<"a", ":", "b">>, <<" ", "a">>}

RoundLabelLists ==
    { << >>,
      <<La>>,
      <<La, Lb>>,
      << <<"a", ",", "b">> >>,
      << <<" ", "a">> >>,
      <<La, Lb, La, Lb, La, Lb>>,
      <<La, La, La, La, La, La, Lb>> }

RoundTaxonomies ==
    UNION {{[i \in 1..n |-> [group |-> i, name |-> nm[i], labels |-> ls[i]]] :
                nm \in [1..n -> RoundNames], ls \in [1..n -> RoundLabelLists]} :
           n \in 0..MaxRoundGroups}

RoundInit ==
    /\ MAX_CONCURRENT \in MaxConcurrentValues
    /\ fileNo = 1
    /\ pc = "round_in"
    /\ df_all = NoTable
    /\ seed_text = << >>
    /\ groups \in RoundTaxonomies
    /\ frozen_summary = << >>
    /\ sem = [f \in Files |-> MAX_CONCURRENT]
    /\ taskState = [f \in Files |-> << >>]
    /\ returned = << >>
    /\ doneOrder = << >>
    /\ results = << >>
    /\ mergeIdx = 0
    /\ out_df = << >>
    /\ written = {}
    /\ errors = {}
    /\ working_df = << >>
    /\ picked_rows = << >>
    /\ out_columns = << >>
    /\ prompts = << >>
    /\ requested = {}
    /\ reparsed = << >>
    /\ SplitterIdle

\* Line 180
RoundRender ==
    /\ pc = "round_in"
    /\ frozen_summary' = groups_summary_for_prompt(groups)
    /\ pc' = "round_mid"
    /\ UNCHANGED <<fileNo, df_all, seed_text, groups, sem, taskState, returned,
                   doneOrder, results, mergeIdx, out_df, written, errors,
                   working_df, picked_rows, out_columns, prompts, requested>>
    /\ UNCHANGED aside

\* parse_groups_text on the summary
RoundParse ==
    /\ pc = "round_mid"
    /\ reparsed' = parse_groups_text(frozen_summary)
    /\ pc' = "round_out"
    /\ UNCHANGED <<fileNo, df_all, seed_text, groups, frozen_summary, sem,
                   taskState, returned, doneOrder, results, mergeIdx, out_df,
                   written, errors, working_df, picked_rows, out_columns,
                   prompts, requested>>
    /\ UNCHANGED <<MAX_CONCURRENT, splitter>>

SpecRound == RoundInit /\ [][RoundRender \/ RoundParse]_vars

(***************************************************************************)
(* divide_six.py and divide_eight.py: the rows of a table go to one file   *)
(* per (outcome, direction) pair and the others to mixed.csv. The tables   *)
(* have both required columns (lines 35-40) and up to MaxSplitRows rows; a  *)
(* row is its outcome cell and its direction cell.                          *)
(***************************************************************************)
MaxSplitRows == 2

\* Lines 42-48 of divide_six.py and divide_eight.py
outcomes ==
    IF script = "divide_six"
    THEN << <<"p", "o", "s", "i", "t", "i", "v", "e", " ", "a", "f", "f", "e", "c", "t">>,
            <<"n", "e", "g", "a", "t", "i", "v", "e", " ", "a", "f", "f", "e", "c", "t">>,
            <<"s", "t", "r", "e", "s", "s">> >>
    ELSE << <<"p", "o", "s", "i", "t", "i", "v", "e", " ", "a", "f", "f", "e", "c", "t">>,
            <<"W", "e", "l", "l", "-", "b", "e", "i", "n", "g">>,
            <<"n", "e", "g", "a", "t", "i", "v", "e", " ", "a", "f", "f", "e", "c", "t">>,
            <<"p", "e", "r", "c", "e", "i", "v", "e", "d", " ", "l", "e", "v", "e", "l", " ", "o", "f", " ", "s", "a", "f", "e", "t", "y">> >>
directions ==
    IF script = "divide_six"
    THEN << <<"i", "n", "c", "r", "e", "a", "s", "e">>, <<"d", "e", "c", "r", "e", "a", "s", "e">> >>
    ELSE << <<"p", "o", "s", "i", "t", "i", "v", "e">>, <<"n", "e", "g", "a", "t", "i", "v", "e">> >>

\* s.replace(old, new) for single characters
Replace(s, old, new) == [k \in 1..Len(s) |-> IF s[k] = old THEN new ELSE s[k]]

\* Lines 51-57
safe_token(s) == Replace(Replace(Lower(Strip(s)), " ", "_"), "-", "_")

\* f"{safe_token(outcome)}_{safe_token(direction)}.csv"
out_name(outcome, direction) ==
    safe_token(outcome) \o <<"_">> \o safe_token(direction) \o <<".", "c", "s", "v">>

mixed_path == <<"m", "i", "x", "e", "d", ".", "c", "s", "v">>

\* The cells of the tables: values of both lists, one in another case and
\* one with a blank after it.
OutcomeCells ==
    { <<"s", "t", "r", "e", "s", "s">>, <<"S", "t", "r", "e", "s", "s">>, <<"p", "o", "s", "i", "t", "i", "v", "e", " ", "a", "f", "f", "e", "c", "t">>, <<"W", "e", "l", "l", "-", "b", "e", "i", "n", "g">> }
DirectionCells ==
    { <<"i", "n", "c", "r", "e", "a", "s", "e">>, <<"d", "e", "c", "r", "e", "a", "s", "e", " ">>, <<"p", "o", "s", "i", "t", "i", "v", "e">>, <<"N", "e", "g", "a", "t", "i", "v", "e">> }

SplitTables ==
    UNION {[1..n -> [outcome : OutcomeCells, direction : DirectionCells]] :
           n \in 0..MaxSplitRows}

\* The mask compares the cells after lower().
maskIgnoreCase(df, outcome, direction) ==
    {i \in 1..Len(df) : /\ Lower(df[i].outcome) = Lower(outcome)
                        /\ Lower(df[i].direction) = Lower(direction)}

\* Line 65 (64 in divide_eight.py): the rows both of whose cells are equal
\* to the values of the bucket.
mask(df, outcome, direction) ==
    {i \in 1..Len(df) : df[i].outcome = outcome /\ df[i].direction = direction}

\* df[m]: the rows of the mask, in the order of the table.
Selected(df, m) == SelectSeq([i \in 1..Len(df) |-> i], LAMBDA i : i \in m)

\* to_csv: the file is made, or written over.
ToCsv(fs, name, rows) ==
    [n \in DOMAIN fs \cup {name} |-> IF n = name THEN rows ELSE fs[n]]

\* What the splitter leaves alone.
dedup == <<MAX_CONCURRENT, fileNo, df_all, seed_text, groups, frozen_summary, sem,
           taskState, returned, doneOrder, results, mergeIdx, out_df, written,
           errors, working_df, picked_rows, out_columns, prompts, requested,
           reparsed>>

SplitInit ==
    /\ MAX_CONCURRENT \in MaxConcurrentValues
    /\ fileNo = 1
    /\ pc = "split"
    /\ df_all = NoTable
    /\ seed_text = << >>
    /\ groups = << >>
    /\ frozen_summary = << >>
    /\ sem = [f \in Files |-> MAX_CONCURRENT]
    /\ taskState = [f \in Files |-> << >>]
    /\ returned = << >>
    /\ doneOrder = << >>
    /\ results = << >>
    /\ mergeIdx = 0
    /\ out_df = << >>
    /\ written = {}
    /\ errors = {}
    /\ working_df = << >>
    /\ picked_rows = << >>
    /\ out_columns = << >>
    /\ prompts = << >>
    /\ requested = {}
    /\ reparsed = << >>
    /\ script \in {"divide_six", "divide_eight"}
    /\ df_split \in SplitTables
    /\ assigned_mask = {}
    /\ bucketNo = 0
    /\ files = << >>

\* One iteration of the loops of lines 63-72 (62-71): bucket bucketNo + 1,
\* outcome after outcome and for each outcome direction after direction.
BucketStep ==
    /\ pc = "split"
    /\ bucketNo < Len(outcomes) * Len(directions)
    /\ LET outcome == outcomes[(bucketNo \div Len(directions)) + 1]
           direction == directions[(bucketNo % Len(directions)) + 1]
           m == mask(df_split, outcome, direction)
       IN  /\ assigned_mask' = assigned_mask \cup m
           /\ files' = ToCsv(files, out_name(outcome, direction), Selected(df_split, m))
    /\ bucketNo' = bucketNo + 1
    /\ UNCHANGED <<pc, script, df_split>>
    /\ UNCHANGED dedup

\* Lines 75-78 (74-76): the rows no bucket took go to mixed.csv.
MixedStep ==
    /\ pc = "split"
    /\ bucketNo = Len(outcomes) * Len(directions)
    /\ files' = ToCsv(files, mixed_path,
                      Selected(df_split, (1..Len(df_split)) \ assigned_mask))
    /\ pc' = "split_done"
    /\ UNCHANGED <<script, df_split, assigned_mask, bucketNo>>
    /\ UNCHANGED dedup

SpecSplit == SplitInit /\ [][BucketStep \/ MixedStep]_vars

(***************************************************************************)
(* Properties                                                              *)
(***************************************************************************)
Count(seq, x) == Cardinality({i \in 1..Len(seq) : seq[i] = x})

\* The labels of all groups, group after group.
SlotLabels == [k \in 1..Len(Slots(groups)) |-> Slots(groups)[k].lab]

\* The seeding and assignment phases of process_file are over.
Assigned == pc \in {"materialize", "written"}

\* The taxonomy the seeding phase of the current file ends with.
SeedGroups ==
    IF parse_groups_text(seed_text) = << >>
    THEN [i \in 1..Len(seed_labels) |->
             [group |-> i, name |-> seed_labels[i], labels |-> <<seed_labels[i]>>]]
    ELSE parse_groups_text(seed_text)

\* The ids the lines of the seed text claim, in line order.
ClaimedIds ==
    LET raw == ParseLines(SplitLines(seed_text))
    IN  [i \in 1..Len(raw) |-> raw[i].group]

\* The label and the decision the merge loop is about to apply.
CurLab == results[mergeIdx][1]
CurDecision == results[mergeIdx][2]

\* The step applies a decision of the merge loop.
MergeStepTaken == pc = "merge" /\ mergeIdx' = mergeIdx + 1

\* groups' is groups with one new last group that holds just lab.
AppendsSingleton(lab, gname) ==
    /\ Len(groups') = Len(groups) + 1
    /\ \A i \in 1..Len(groups) : groups'[i] = groups[i]
    /\ groups'[Len(groups')] =
           [group |-> Len(groups) + 1, name |-> gname, labels |-> <<lab>>]

\* C1: after the seeding and assignment phases every label occurrence of the
\* input table is in exactly one group's label list: each label value is
\* listed by the groups as many times as the table has it.
C1_EveryLabelExactlyOnce ==
    Assigned =>
        \A l \in {all_labels[i] : i \in 1..Len(all_labels)} :
            Count(SlotLabels, l) = Count(all_labels, l)

\* C2: in every taxonomy state (after parsing, after the singleton fallback,
\* after each decision of the merge loop) the group ids are 1..N in list
\* order.
C2_IdsContiguous == \A i \in 1..Len(groups) : groups[i].group = i

\* A seed response that claimed gapped ids, and a group added by the merge.
C2_Witness ==
    /\ Assigned
    /\ \E i \in 1..Len(ClaimedIds) : ClaimedIds[i] # i
    /\ Len(groups) > Len(SeedGroups)

\* The assignment calls that hold a permit, over all files.
Outstanding ==
    Cardinality({t \in UNION {{f} \X (1..Len(taskState[f])) : f \in Files} :
                    taskState[t[1]][t[2]] = "inflight"})

\* C3: at every point of a run of main the number of outstanding assignment
\* calls is at most MAX_CONCURRENT.
C3_ConcurrencyBound == Outstanding <= MAX_CONCURRENT

RECURSIVE MergeAll(_, _)
\* The decisions applied one after the other, in the order of the list.
MergeAll(gs, pairs) ==
    IF pairs = << >> THEN gs
    ELSE MergeAll(MergeOne(gs, pairs[1][1], pairs[1][2]), Tail(pairs))

\* C4: the final taxonomy is the seed taxonomy with the decision each task
\* returned applied in input order, whatever the order the tasks returned in.
C4_MergeInInputOrder ==
    Assigned =>
        groups = MergeAll(SeedGroups,
                          [i \in 1..Len(remaining) |-> <<remaining[i], returned[i][2]>>])

\* The second task returned first, and the two decisions made two groups
\* with different names.
C4_Witness ==
    /\ pc = "written"
    /\ doneOrder = <<2, 1>>
    /\ Len(groups) = Len(SeedGroups) + 2
    /\ groups[Len(groups)].name # groups[Len(groups) - 1].name

\* C5: a decision "Group k" with k outside 1..N, N the number of groups of
\* the seed taxonomy, changes no group that exists and makes a new group
\* that holds just the label.
C5_OutsideSeedRangeIsNewGroup ==
    [][(/\ MergeStepTaken
        /\ StartsWith(Lower(CurDecision), LowGroup)
        /\ HasDigit(CurDecision)
        /\ FirstInt(CurDecision) \notin 1..Len(SeedGroups))
       => AppendsSingleton(CurLab, CurLab)]_vars

\* C6: a decision that neither names a group that exists when it is applied
\* nor starts with "new:" makes exactly one new group, named after the label
\* and holding just the label.
C6_UnparseableIsSingleton ==
    [][(/\ MergeStepTaken
        /\ ~(/\ StartsWith(Lower(CurDecision), LowGroup)
             /\ HasDigit(CurDecision)
             /\ FirstInt(CurDecision) \in 1..Len(groups))
        /\ ~StartsWith(Lower(CurDecision), LowNew))
       => AppendsSingleton(CurLab, CurLab)]_vars

\* The decision "Group" (no integer) of the first remaining label has been
\* applied.
C6_Witness ==
    /\ pc \in {"merge", "materialize"}
    /\ mergeIdx = 2
    /\ results[1][2] = GroupWord
    /\ groups[Len(groups)] =
           [group |-> Len(groups), name |-> results[1][1], labels |-> <<results[1][1]>>]

\* C7: a decision that starts with "new:" in any case makes a new group that
\* holds just the label, named by the stripped text after the first colon,
\* or by the label when that text is empty.
C7_NewProposal ==
    [][(MergeStepTaken /\ StartsWith(Lower(CurDecision), LowNew))
       => AppendsSingleton(CurLab,
              IF Strip(From(CurDecision, 5)) = << >>
              THEN CurLab ELSE Strip(From(CurDecision, 5)))]_vars

\* The decision "NEW: Z" of the first remaining label has been applied.
C7_Witness ==
    /\ pc \in {"merge", "materialize"}
    /\ mergeIdx = 2
    /\ results[1][2] = <<"N", "E", "W", ":", " ", "Z">>
    /\ groups[Len(groups)].name = <<"Z">>
    /\ groups[Len(groups)].labels = <<results[1][1]>>

\* C8: when parse_groups_text returns no group, the taxonomy the assignment
\* starts from has one group per seed label occurrence, the i-th with id i,
\* the i-th seed label as its name and as its only label; and there is a
\* group whenever a label remains to be assigned.
C8_SingletonFallback ==
    /\ (pc \in {"seeded", "gather"} /\ parse_groups_text(seed_text) = << >>)
       => /\ Len(groups) = Len(seed_labels)
          /\ \A i \in 1..Len(groups) :
                 groups[i] = [group |-> i, name |-> seed_labels[i],
                              labels |-> <<seed_labels[i]>>]
    /\ (pc \in {"gather", "merge"} => groups # << >>)

\* The fallback on a seed window that holds the same label twice.
C8_Witness ==
    /\ pc = "gather"
    /\ parse_groups_text(seed_text) = << >>
    /\ seed_labels = <<La, La>>
    /\ Len(groups) = 2

\* The position parse_groups_text gives the i-th parsed line: after the
\* lines that claim a smaller id and after the earlier lines that claim the
\* same id.
Rank(raw, i) ==
    Cardinality({j \in 1..Len(raw) : raw[j].group < raw[i].group})
    + Cardinality({j \in 1..i : raw[j].group = raw[i].group})

\* C9: parse_groups_text orders the parsed lines by the id they claim, lines
\* with the same id in line order, and numbers them 1..N; the two lines
\* "Group 3 Mood: happy, joyful" and "Group 1 Weather: sunny" give Weather
\* id 1 and Mood id 2.
C9_SortedThenRenumbered ==
    pc = "parse_out" =>
        LET raw == ParseLines(SplitLines(seed_text))
        IN  /\ Len(groups) = Len(raw)
            /\ \A i \in 1..Len(raw) :
                   groups[Rank(raw, i)] = [raw[i] EXCEPT !.group = Rank(raw, i)]
            /\ seed_text = MoodLine \o <<LF>> \o WeatherLine
               => groups = << [group |-> 1,
                               name |-> <<"W", "e", "a", "t", "h", "e", "r">>,
                               labels |-> << <<"s", "u", "n", "n", "y">> >>],
                              [group |-> 2,
                               name |-> <<"M", "o", "o", "d">>,
                               labels |-> << <<"h", "a", "p", "p", "y">>,
                                             <<"j", "o", "y", "f", "u", "l">> >>] >>

\* Three lines parsed, two of them claiming the same id and one a smaller
\* id on a later line.
C9_Witness ==
    /\ pc = "parse_out"
    /\ Len(ClaimedIds) = 3
    /\ ClaimedIds[1] = ClaimedIds[2]
    /\ ClaimedIds[3] < ClaimedIds[1]
    /\ groups[2].name # groups[3].name

\* C10: when an assignment call of the current file raises, process_file
\* fails at once: no merge step has been applied, the file is reported and
\* not written, and main is at the next file; a file is never both reported
\* and written.
C10_FailureAbortsFile ==
    [][(/\ fileNo \in Files
        /\ \E i \in 1..Len(taskState[fileNo]) :
               taskState[fileNo][i] = "inflight" /\ taskState'[fileNo][i] = "failed")
       => /\ pc = "gather"
          /\ mergeIdx = 0
          /\ fileNo' = fileNo + 1
          /\ pc' = "start"
          /\ fileNo \in errors'
          /\ fileNo \notin written'
          /\ errors' \cap written' = {}]_vars

\* A call of the first file failed, and the second file was written.
C10_Witness ==
    /\ \E i \in 1..Len(taskState[1]) : taskState[1][i] = "failed"
    /\ 1 \in errors
    /\ 1 \notin written
    /\ 2 \in written

\* The slot the materialization loop is at, and the step that fills it.
CurSlot == Slots(groups)[Len(picked_rows) + 1]
PickStepTaken == pc = "materialize" /\ Len(picked_rows') = Len(picked_rows) + 1

\* Row i of the table matches the label: exactly, or after strip and lower.
MatchesExact(i, lab) == all_labels[i] = lab
MatchesLenient(i, lab) == Lower(Strip(all_labels[i])) = Lower(Strip(lab))

\* The rows of a pool, as a set.
PoolSet(pool) == {pool[k] : k \in 1..Len(pool)}

\* C11: each label slot of the materialization takes at most one row out of
\* the pool. When a row of the pool matches the label (exactly, else after
\* strip and lower), exactly that one row leaves the pool, every other row
\* stays, also a row with the same label, and the row is emitted with its
\* own cells. When no row matches, the pool is unchanged and the output
\* gets one synthesized row whose category is the label and whose other
\* cells are empty.
C11_SlotTakesAtMostOneRow ==
    [][PickStepTaken =>
        LET matching == {i \in PoolSet(working_df) :
                            MatchesExact(i, CurSlot.lab) \/ MatchesLenient(i, CurSlot.lab)}
            out == picked_rows'[Len(picked_rows')]
        IN  /\ picked_rows' = Append(picked_rows, out)
            /\ IF matching = {}
               THEN /\ working_df' = working_df
                    /\ out.row = 0
                    /\ out.Category = CurSlot.lab
               ELSE /\ out.row \in matching
                    /\ out.Category = all_labels[out.row]
                    /\ working_df' = SelectSeq(working_df, LAMBDA i : i # out.row)
                    /\ Len(working_df') = Len(working_df) - 1]_vars

\* One of two rows with the same label was picked and the other is still in
\* the pool, and a label without a row got a synthesized row.
C11_Witness ==
    /\ pc = "materialize"
    /\ \E k \in 1..Len(picked_rows) :
           /\ picked_rows[k].row # 0
           /\ \E j \in PoolSet(working_df) : all_labels[j] = picked_rows[k].Category
    /\ \E k \in 1..Len(picked_rows) :
           /\ picked_rows[k].row = 0
           /\ \A i \in 1..Len(all_labels) :
                  ~MatchesLenient(i, picked_rows[k].Category)

\* The position of the category column in a header.
CategoryAt(columns) == CHOOSE k \in 1..Len(columns) : columns[k] = CATEGORY_COL

\* C12: the columns of a written table that has rows are the columns of the
\* input table with Group and Group Name put in right after the category
\* column: every input column once, in its order, the category column where
\* it was.
C12_ColumnsInserted ==
    (pc = "written" /\ out_df # << >>) =>
        out_columns = SubSeq(df_all.columns, 1, CategoryAt(df_all.columns))
                      \o <<"Group", "Group Name">>
                      \o SubSeq(df_all.columns, CategoryAt(df_all.columns) + 1,
                                Len(df_all.columns))

\* The elements of a sequence, as a set.
Range(seq) == {seq[k] : k \in 1..Len(seq)}

\* C13 as stated: parsing the summary of any taxonomy gives the groups back
\* with their names and the labels that belong to each.
C13_RoundTripAny ==
    pc = "round_out" =>
        /\ Len(reparsed) = Len(groups)
        /\ \A i \in 1..Len(groups) :
               /\ reparsed[i].name = groups[i].name
               /\ Range(reparsed[i].labels) = Range(groups[i].labels)

\* A text without blanks around it, not empty and without the character.
Plain(s, ch) == s # << >> /\ Strip(s) = s /\ \A k \in 1..Len(s) : s[k] \notin {ch, LF}

\* A group the summary shows in full and the pattern reads back.
ShownInFull(g) ==
    /\ Len(g.labels) \in 1..max_examples_per_group
    /\ Plain(g.name, ":")
    /\ \A k \in 1..Len(g.labels) : Plain(g.labels[k], ",")

\* C13, amended: parsing the summary of a taxonomy gives the taxonomy back
\* (ids, names and label lists) when every group has between one and
\* max_examples_per_group labels, its name is not empty, has no blank around
\* it, no colon and no line break, and each label is not empty, has no
\* blank around it, no comma and no line break.
C13_RoundTripShownInFull ==
    (pc = "round_out" /\ \A i \in 1..Len(groups) : ShownInFull(groups[i]))
        => reparsed = groups

\* Two groups shown in full, one of them with two labels, were read back.
C13_Witness ==
    /\ pc = "round_out"
    /\ Len(groups) = 2
    /\ \A i \in 1..2 : ShownInFull(groups[i])
    /\ Len(groups[2].labels) = 2
    /\ Len(reparsed) = 2

\* An assignment call of the current file has not returned yet.
CallPending ==
    /\ fileNo \in Files
    /\ \E i \in 1..Len(taskState[fileNo]) :
           taskState[fileNo][i] \in {"inflight", "waiting"}

\* C14: while an assignment call of the current file is pending the
\* taxonomy is the one the seeding phase ended with, and every assignment
\* call of the file was made with its own label and the one summary of that
\* taxonomy; it stays so while the merge loop adds groups.
C14_FrozenWhilePending ==
    /\ (pc = "gather" /\ CallPending) => groups = SeedGroups
    /\ pc \in {"gather", "merge", "materialize", "written"} =>
           /\ frozen_summary = groups_summary_for_prompt(SeedGroups)
           /\ Len(prompts) = Len(remaining)
           /\ \A i \in 1..Len(prompts) :
                  prompts[i] = [label |-> remaining[i],
                                groups_summary |-> frozen_summary]

\* The merge loop made a group for the first label; the call for the second
\* label was made with a summary that does not show it.
C14_Witness ==
    /\ pc = "merge"
    /\ mergeIdx = 2
    /\ Len(groups) = Len(SeedGroups) + 1
    /\ Len(prompts) = 2
    /\ prompts[2].groups_summary # groups_summary_for_prompt(groups)

\* C15: when the table read for a file has no category column,
\* process_file fails at once: no request is sent to the model for the
\* file, no task is made, nothing is written, the file is reported, and
\* main is at the next file.
C15_MissingColumnFailsEarly ==
    [][\A t \in Tables :
          (~HasColumn(t.columns, CATEGORY_COL) /\ LoadFile(t))
          => /\ fileNo \notin requested'
             /\ taskState'[fileNo] = << >>
             /\ fileNo \notin written'
             /\ fileNo \in errors'
             /\ fileNo' = fileNo + 1
             /\ pc' = "start"]_vars

\* The first file failed without a request, and the second was written.
C15_Witness ==
    /\ 1 \in errors
    /\ 1 \notin requested
    /\ 2 \in requested
    /\ 2 \in written

\* No value is twice in the sequence.
Distinct(seq) == \A i, j \in 1..Len(seq) : seq[i] = seq[j] => i = j

\* C16 as stated: in every taxonomy state no group lists a label twice.
C16_LabelsDistinct == \A i \in 1..Len(groups) : Distinct(groups[i].labels)

\* The decision the merge loop is about to apply names a group that lists
\* the label already.
AppendsListedLabel ==
    /\ IsGroupDecision(groups, CurDecision)
    /\ CurLab \in Range(groups[FirstInt(CurDecision)].labels)

\* C16, amended: a group lists a label twice only when the seed response
\* has it twice on the group's line or the merge appends it to a group that
\* lists it already. When no line of the seed response repeats a label the
\* taxonomy the assignment starts from has no label twice in a group, and a
\* merge step on such a taxonomy leaves it so unless its decision names a
\* group that lists the label already; in that case the label is twice in
\* that group.
C16_DuplicatesOnlyWhenPlacedTwice ==
    [][/\ (/\ pc \in {"parsed", "seeded", "gather"}
           /\ \A k \in 1..Len(ParseLines(SplitLines(seed_text))) :
                  Distinct(ParseLines(SplitLines(seed_text))[k].labels))
          => C16_LabelsDistinct
       /\ (MergeStepTaken /\ C16_LabelsDistinct)
          => IF AppendsListedLabel
             THEN ~Distinct(groups'[FirstInt(CurDecision)].labels)
             ELSE \A i \in 1..Len(groups') : Distinct(groups'[i].labels)]_vars

\* The first remaining label went to a group that did not list it, and no
\* group has a label twice.
C16_Witness ==
    /\ pc \in {"merge", "materialize"}
    /\ mergeIdx = 2
    /\ Len(groups) = Len(SeedGroups)
    /\ \E i \in 1..Len(groups) :
           /\ Len(groups[i].labels) = 2
           /\ Len(SeedGroups[i].labels) = 1
    /\ C16_LabelsDistinct

\* The files that hold row i, and how often all files hold it.
FilesOf(i) == {n \in DOMAIN files : i \in Range(files[n])}
TimesWritten(i) ==
    Cardinality({p \in UNION {{n} \X (1..Len(files[n])) : n \in DOMAIN files} :
                    files[p[1]][p[2]] = i})

\* C17: when a splitter has finished, every row of the input is in exactly
\* one output file, once: the file of its (outcome, direction) pair when
\* both cells are equal, character by character, to listed values, and
\* mixed.csv otherwise; and every bucket file and mixed.csv exist, also
\* without rows.
C17_SplitPartitions ==
    pc = "split_done" =>
        /\ \A i \in 1..Len(df_split) :
               /\ TimesWritten(i) = 1
               /\ FilesOf(i) =
                      IF /\ df_split[i].outcome \in Range(outcomes)
                         /\ df_split[i].direction \in Range(directions)
                      THEN {out_name(df_split[i].outcome, df_split[i].direction)}
                      ELSE {mixed_path}
        /\ DOMAIN files =
               {out_name(o, d) : o \in Range(outcomes), d \in Range(directions)}
               \cup {mixed_path}
        /\ Cardinality(DOMAIN files) = Len(outcomes) * Len(directions) + 1

\* One row went to its bucket, one row whose outcome is in another case
\* went to mixed.csv, and a bucket file has no row.
C17_Witness ==
    /\ pc = "split_done"
    /\ Len(df_split) = 2
    /\ \E n \in DOMAIN files : n # mixed_path /\ Len(files[n]) = 1
    /\ \E k \in 1..Len(files[mixed_path]) :
           /\ Lower(df_split[files[mixed_path][k]].outcome) \in Range(outcomes)
           /\ df_split[files[mixed_path][k]].direction \in Range(directions)
    /\ \E n \in DOMAIN files : files[n] = << >>

\* All tasks made so far, as (file, position) pairs.
AllTasks == UNION {{f} \X (1..Len(taskState[f])) : f \in Files}

\* C18 as stated: every assignment call that was dispatched runs until it
\* returns or raises; none is ever cancelled.
C18_NeverCancelled == \A t \in AllTasks : taskState[t[1]][t[2]] # "cancelled"

\* C18, amended: a failing call cancels no other call of its file: each of
\* them stays as it is, except that the first one waiting gets the permit;
\* the calls go on while main works on the later files, and a call is
\* cancelled only when main has returned and asyncio.run ends the loop.
C18_AbortCancelsNothing ==
    [][/\ \A t \in AllTasks :
              (/\ taskState[t[1]][t[2]] = "inflight"
               /\ Len(taskState'[t[1]]) = Len(taskState[t[1]])
               /\ taskState'[t[1]][t[2]] = "failed")
              => \A j \in 1..Len(taskState[t[1]]) :
                     \/ taskState'[t[1]][j] = taskState[t[1]][j]
                     \/ j = t[2]
                     \/ /\ taskState[t[1]][j] = "waiting"
                        /\ taskState'[t[1]][j] = "inflight"
       /\ (\E f \in Files : \E j \in 1..Len(taskState'[f]) :
               taskState'[f][j] = "cancelled") => pc' = "exit"]_vars

\* A call of the first file failed while another was pending; the other
\* one returned while main was at the second file.
C18_Witness ==
    /\ fileNo = 2
    /\ pc \in {"seed", "gather"}
    /\ 1 \in errors
    /\ \E i, j \in 1..Len(taskState[1]) :
           taskState[1][i] = "failed" /\ taskState[1][j] = "done" /\ i < j

\* C19: a step of the merge loop either appends its label to the end of the
\* list of one group, or appends one group that holds just the label to the
\* end of the taxonomy; the groups and labels that exist keep their place,
\* id and name. The steps of the materialization leave the taxonomy as it is.
C19_AppendOnly ==
    [][/\ MergeStepTaken =>
              \/ \E k \in 1..Len(groups) :
                     groups' = [groups EXCEPT ![k].labels = Append(@, CurLab)]
              \/ \E gname \in {CurLab, NewGroupName(CurLab, CurDecision)} :
                     groups' = Append(groups, [group |-> Len(groups) + 1,
                                               name |-> gname,
                                               labels |-> <<CurLab>>])
       /\ pc = "materialize" => groups' = groups]_vars

\* The merge loop put one label into a seed group and made one group, and
\* the materialization has picked a row.
C19_Witness ==
    /\ pc = "materialize"
    /\ Len(picked_rows) > 0
    /\ Len(groups) = Len(SeedGroups) + 1
    /\ \E i \in 1..Len(SeedGroups) :
           /\ Len(groups[i].labels) = Len(SeedGroups[i].labels) + 1
           /\ groups[i].labels[1] # groups[i].labels[Len(groups[i].labels)]

\* The number of labels of the first n groups.
RECURSIVE LabelsBefore(_)
LabelsBefore(n) == IF n = 0 THEN 0 ELSE LabelsBefore(n - 1) + Len(groups[n].labels)

\* C20: the table that is written has one row per label of the final
\* taxonomy, group after group and within a group label after label; the
\* row of a label has the id and the name of its group, and its category is
\* the label, or the cell of a row of the input that matches the label. The
\* number of rows is the number of labels of the taxonomy, whatever the
\* number of rows of the input is: a row that no label takes is not
\* written.
C20_OneRowPerSlot ==
    pc = "written" =>
        /\ Len(out_df) = LabelsBefore(Len(groups))
        /\ \A gi \in 1..Len(groups) : \A k \in 1..Len(groups[gi].labels) :
               LET out == out_df[LabelsBefore(gi - 1) + k]
               IN  /\ out.Group = groups[gi].group
                   /\ out.GroupName = groups[gi].name
                   /\ IF out.row = 0
                      THEN out.Category = groups[gi].labels[k]
                      ELSE /\ out.row \in 1..Len(all_labels)
                           /\ out.Category = all_labels[out.row]
                           /\ MatchesLenient(out.row, groups[gi].labels[k])

\* A table of four rows was written with three: the seed response left a
\* label out, and the merge made a second group.
C20_Witness ==
    /\ pc = "written"
    /\ Len(all_labels) = 4
    /\ Len(out_df) = 3
    /\ Len(groups) = 2
    /\ out_df[3].Group = 2
    /\ out_df[1].GroupName # out_df[1].Category

\* Task i of file f exists and is in state st.
TaskIs(f, i, st) == i \in 1..Len(taskState[f]) /\ taskState[f][i] = st

\* What is true of the fan-out in every state: the permits taken and the
\* permits left add up to MAX_CONCURRENT, a task waits only while every
\* permit is taken, some call is in flight as long as gather waits, and
\* gather returns one (label, decision) pair per remaining label, in the
\* order of the labels.
FanOutState ==
    /\ \A f \in Files :
           /\ sem[f] + CountOf(taskState[f], "inflight") = MAX_CONCURRENT
           /\ CountOf(taskState[f], "waiting") > 0 => sem[f] = 0
    /\ pc = "gather" => \E i \in TaskIds : TaskIs(fileNo, i, "inflight")
    /\ pc = "merge" =>
           /\ Len(results) = Len(remaining)
           /\ \A i \in 1..Len(results) :
                  /\ results[i][1] = remaining[i]
                  /\ results[i] = returned[i]
                  /\ TaskIs(fileNo, i, "done")

\* What is true of every step: a task is made once per remaining label, its
\* request is issued once (it gets in flight at its creation or from the
\* queue, and never again), and the permit of a call that returns goes to
\* the first task waiting, or back to the semaphore.
FanOutStep ==
    /\ (pc # "gather" /\ pc' = "gather") =>
           /\ Len(taskState'[fileNo]) = Len(remaining)
           /\ \A i \in 1..Len(remaining) :
                  taskState'[fileNo][i] =
                      IF i <= MAX_CONCURRENT THEN "inflight" ELSE "waiting"
    /\ \A f \in Files : \A i \in TaskIds :
           /\ (~TaskIs(f, i, "inflight") /\ TaskIs(f, i, "inflight")')
              => (taskState[f] = << >> \/ TaskIs(f, i, "waiting"))
           /\ (TaskIs(f, i, "inflight") /\ ~TaskIs(f, i, "inflight")')
              => /\ TaskIs(f, i, "done")'
                 /\ IF \E j \in TaskIds : TaskIs(f, j, "waiting")
                    THEN /\ sem'[f] = sem[f]
                         /\ \E j \in TaskIds :
                                /\ TaskIs(f, j, "waiting")
                                /\ TaskIs(f, j, "inflight")'
                                /\ \A k \in 1..(j - 1) : ~TaskIs(f, k, "waiting")
                    ELSE sem'[f] = sem[f] + 1
           /\ TaskIs(f, i, "done") => (TaskIs(f, i, "done")' \/ taskState'[f] = << >>)

HasForm(line, i3, q) ==
    /\ StartsWith(line, GroupWord)
    /\ i3 + 2 <= q /\ q < Len(line)
    /\ line[q] = ":"
    /\ \E i1 \in 6..(i3 - 2) :
           /\ \A k \in 6..i1 : IsSpace(line[k])
           /\ \E i2 \in (i1 + 1)..(i3 - 1) :
                  /\ \A k \in (i1 + 1)..i2 : IsDigit(line[k])
                  /\ \A k \in (i2 + 1)..i3 : IsSpace(line[k])

\* The places a colon of the line can have.
Colons(line) == {q \in 1..Len(line) : line[q] = ":"}

\* The line has one of the forms, and g has the name, trimmed, and the
\* fragments of the text between commas, in order, trimmed, without the
\* empty ones.
ReadsAs(line, g) ==
    \E q \in Colons(line) : \E i3 \in 1..(q - 2) :
        /\ HasForm(line, i3, q)
        /\ g.name = Strip(SubSeq(line, i3 + 1, q - 1))
        /\ LET parts == Split(SubSeq(line, q + 1, Len(line)), ",")
               kept == {k \in 1..Len(parts) : Strip(parts[k]) # << >>}
           IN  /\ Len(g.labels) = Cardinality(kept)
               /\ \A k \in kept :
                      g.labels[Cardinality({h \in kept : h <= k})] = Strip(parts[k])

\* The line has the form of a group line.
IsGroupLine(line) ==
    \E q \in Colons(line) : \E i3 \in 1..(q - 2) : HasForm(line, i3, q)

\* C22: parse_groups_text returns one group for each line of the text
\* that, trimmed, has the form "Group <int> <name>: <labels>", and nothing
\* for any other line; the labels of the group of a line are the fragments
\* of the line's text after the colon, between commas, in order, trimmed,
\* without the empty ones.
C22_OneGroupPerGroupLine ==
    pc = "parse_out" =>
        LET lines == SplitLines(seed_text)
            hits == SelectSeq([k \in 1..Len(lines) |-> Strip(lines[k])], IsGroupLine)
        IN  /\ Len(groups) = Len(hits)
            /\ \E at \in [1..Len(hits) -> 1..Len(hits)] :
                   /\ \A h, k \in 1..Len(hits) : at[h] = at[k] => h = k
                   /\ \A k \in 1..Len(hits) : ReadsAs(hits[k], groups[at[k]])

\* Three lines, the second not a group line; one of the two groups has the
\* labels of a line with empty fragments.
C22_Witness ==
    /\ pc = "parse_out"
    /\ Len(SplitLines(seed_text)) = 3
    /\ ~IsGroupLine(Strip(SplitLines(seed_text)[2]))
    /\ Strip(SplitLines(seed_text)[2]) # << >>
    /\ Len(groups) = 2
    /\ \E i \in 1..2 : groups[i].labels = <<La, Lb>>
    /\ \E k \in {1, 3} :
           Len(Split(SplitLines(seed_text)[k], ",")) = 4

\* The positions of picked_rows that hold a row of the table.
FromTable == {k \in 1..Len(picked_rows) : picked_rows[k].row # 0}

\* C23: during and after the materialization of a file no row of the table
\* is in picked_rows twice, a row that was picked is not in the pool, every
\* other row is, once and in table order, and so the rows picked from the
\* table are at most the rows of the table and the pool has lost one row
\* per pick.
C23_RowEmittedAtMostOnce ==
    pc \in {"materialize", "written"} =>
        /\ \A j, k \in FromTable : picked_rows[j].row = picked_rows[k].row => j = k
        /\ working_df =
               SelectSeq([i \in 1..Len(all_labels) |-> i],
                         LAMBDA i : \A k \in FromTable : picked_rows[k].row # i)
        /\ Cardinality(FromTable) <= Len(all_labels)
        /\ Len(working_df) = Len(all_labels) - Cardinality(FromTable)

\* A row was picked for a label, and a later slot of a label that matches
\* the row got a synthesized row.
C23_Witness ==
    /\ pc = "materialize"
    /\ \E j, k \in 1..Len(picked_rows) :
           /\ j < k
           /\ picked_rows[j].row # 0
           /\ picked_rows[k].row = 0
           /\ MatchesLenient(picked_rows[j].row, picked_rows[k].Category)

====
